---- MODULE Spec2Model ----
(***************************************************************************)
(* Model of src/main.rs: the four layers core / domain / infra / api and   *)
(* the entry point main.                                                   *)
(*                                                                         *)
(* core::add is `x + y` on i32.  Rust evaluates an overflowing `+` in one  *)
(* of two ways, depending on the build: with overflow checks (the debug    *)
(* profile) it panics, without them (the release profile) it wraps in      *)
(* two's complement.  The build is the variable overflowChecks, chosen in  *)
(* Init.  i32 values are kept at their real width; sums are computed on    *)
(* 16-bit limbs so that the exact sum of two i32 values is representable.  *)
(***************************************************************************)
EXTENDS Integers, Sequences, FiniteSets, TLC

----------------------------------------------------------------------------
(* Bounds of the model *)

\* how many values are drawn on each side of an interesting i32 value
Edge == 1

\* how many times a stub fetch future may answer Pending before it is Ready
MaxPolls == 2

----------------------------------------------------------------------------
(* i32 *)

I32_MAX == 2147483647

I32_MIN == -I32_MAX - 1

LimbBase == 65536

LimbHalf == 32768

\* an exact integer as two limbs: value = hi * LimbBase + lo, 0 <= lo < LimbBase
Limbs(n) == [hi |-> n \div LimbBase, lo |-> n % LimbBase]

\* the exact (mathematical) sum of two i32 values, as limbs
MathSum(x, y) ==
    LET l == (x % LimbBase) + (y % LimbBase)
    IN  [hi |-> (x \div LimbBase) + (y \div LimbBase) + (l \div LimbBase),
         lo |-> l % LimbBase]

\* does the exact value m fit an i32
InI32(m) == m.hi >= -LimbHalf /\ m.hi < LimbHalf

\* the i32 holding the low 32 bits of m (two's complement)
WrapI32(m) == (((m.hi + LimbHalf) % LimbBase) - LimbHalf) * LimbBase + m.lo

----------------------------------------------------------------------------
(* Values *)

Val(v) == [kind |-> "Val", v |-> v]

Panic == [kind |-> "Panic"]

Ok(v) == [kind |-> "Ok", v |-> v]

Err(e) == [kind |-> "Err", e |-> e]

None == [kind |-> "None"]

\* anyhow::Error: a message and the chain of contexts wrapped around it
Error(msg) == [msg |-> msg, chain |-> <<>>]

Errors == {Error("db down"), Error("timeout")}

\* the i32 values the inputs are drawn from
Samples ==
    {I32_MIN + k : k \in 0 .. Edge} \cup ((-Edge) .. Edge) \cup {2, 3, 7}
      \cup {I32_MAX - 7 + k : k \in 0 .. Edge} \cup {I32_MAX - k : k \in 0 .. Edge}

InfraFn == [kind |-> "infra"]

StubFn(r) == [kind |-> "stub", result |-> r]

\* the fetch operations domain::add is called with: the real one and test doubles
Stubs == {StubFn(Ok(v)) : v \in Samples} \cup {StubFn(Err(e)) : e \in Errors}

----------------------------------------------------------------------------
(* State *)

VARIABLES
    overflowChecks, \* the build: TRUE = `+` panics on overflow, FALSE = it wraps
    entry,          \* which function the caller invoked: none/main/api/domain/core
    mainPc,         \* main: idle, awaiting, printed, exited
    stdout,         \* what main printed
    exitCode,       \* the process exit status, -1 while running
    apiPc,          \* api::add: idle, awaiting, returned, panicked
    apiCalls,       \* number of invocations of api::add
    apiY,           \* api::add's operand
    apiResult,      \* api::add's return value
    domPc,          \* domain::add: idle, start, awaiting, returned, panicked
    get_x,          \* the fetch operation injected into domain::add
    domY,           \* domain::add's operand
    domResult,      \* domain::add's return value
    fetchSt,        \* the future of get_x(): idle, pending, done
    fetchCalls,     \* number of invocations of get_x
    fetchDone,      \* number of completions of the future of get_x()
    fetchResult,    \* what the future of get_x() completed with
    polls,          \* number of times the future answered Pending
    coreCalls,      \* number of invocations of core::add by domain::add
    coreLog,        \* arguments and outcome of that invocation
    coreEval        \* direct evaluations of core::add on drawn inputs

vars == <<overflowChecks, entry, mainPc, stdout, exitCode, apiPc, apiCalls, apiY,
          apiResult, domPc, get_x, domY, domResult, fetchSt, fetchCalls, fetchDone,
          fetchResult, polls, coreCalls, coreLog, coreEval>>

mainVars == <<mainPc, stdout, exitCode>>

apiVars == <<apiPc, apiCalls, apiY, apiResult>>

domVars == <<domPc, get_x, domY, domResult>>

fetchVars == <<fetchSt, fetchCalls, fetchDone, fetchResult, polls>>

coreVars == <<coreCalls, coreLog>>

----------------------------------------------------------------------------
(* core *)

\* core::add: x + y on i32
CoreAdd(x, y) ==
    LET m == MathSum(x, y)
    IN  IF InI32(m) THEN Val(WrapI32(m))
        ELSE IF overflowChecks THEN Panic
        ELSE Val(WrapI32(m))

\* core::add applied to the outcomes of two sub-expressions: a panic in either
\* one unwinds through the call
CoreAddR(a, b) ==
    IF a.kind = "Panic" \/ b.kind = "Panic" THEN Panic ELSE CoreAdd(a.v, b.v)

----------------------------------------------------------------------------
(* infra *)

\* infra::get_x: Ok(7)
InfraGetX == Ok(7)

\* what the future of get_x() completes with
FetchOutcome(f) == IF f.kind = "infra" THEN InfraGetX ELSE f.result

----------------------------------------------------------------------------
(* `?` *)

\* variant: `?` replaced by .context(..)?, which wraps the error
FromError_Context(e) == [msg |-> e.msg, chain |-> Append(e.chain, "domain::add")]

\* From<anyhow::Error> for anyhow::Error, applied by `?` to the error: the blanket
\* impl From<T> for T, which returns its argument
FromError(e) == e

\* `expr?` in a function returning anyhow::Result: Err(e) returns
\* Err(From::from(e)) from the function, Ok(v) continues with v
Try(r) == IF r.kind = "Err" THEN Err(FromError(r.e)) ELSE r

----------------------------------------------------------------------------
(* Init *)

Init ==
    /\ overflowChecks \in BOOLEAN
    /\ entry = "none"
    /\ mainPc = "idle"
    /\ stdout = <<>>
    /\ exitCode = -1
    /\ apiPc = "idle"
    /\ apiCalls = 0
    /\ apiY = 0
    /\ apiResult = None
    /\ domPc = "idle"
    /\ get_x = InfraFn
    /\ domY = 0
    /\ domResult = None
    /\ fetchSt = "idle"
    /\ fetchCalls = 0
    /\ fetchDone = 0
    /\ fetchResult = None
    /\ polls = 0
    /\ coreCalls = 0
    /\ coreLog = None
    /\ coreEval = None

----------------------------------------------------------------------------
(* api *)

\* a call api::add(y)
ApiCalled(y) ==
    /\ apiPc = "idle"
    /\ apiPc' = "start"
    /\ apiY' = y
    /\ apiCalls' = apiCalls + 1
    /\ UNCHANGED apiResult

\* a call domain::add(f, y)
DomainCalled(f, y) ==
    /\ domPc = "idle"
    /\ domPc' = "start"
    /\ get_x' = f
    /\ domY' = y
    /\ UNCHANGED domResult

\* api::add, up to the await: domain::add(infra::get_x, y)
ApiEnter ==
    /\ apiPc = "start"
    /\ apiPc' = "awaiting"
    /\ DomainCalled(InfraFn, apiY)
    /\ UNCHANGED <<apiCalls, apiY, apiResult>>
    /\ UNCHANGED <<overflowChecks, entry, mainVars, fetchVars, coreVars, coreEval>>

\* variant: api::add recovers from a failure with a default, .unwrap_or(0)
ApiAddReturn_Recover(r) == IF r.kind = "Err" THEN Ok(0) ELSE Ok(r.v)

\* api::add, after the await: `let result = ...?; Ok(result)`
ApiAddReturn(r) ==
    LET t == Try(r)
    IN  IF t.kind = "Err" THEN t ELSE Ok(t.v)

\* api::add resumes when domain::add has ended; a panic unwinds through it
ApiResume ==
    /\ apiPc = "awaiting"
    /\ domPc \in {"returned", "panicked"}
    /\ IF domPc = "panicked"
       THEN apiPc' = "panicked" /\ UNCHANGED apiResult
       ELSE apiPc' = "returned" /\ apiResult' = ApiAddReturn(domResult)
    /\ UNCHANGED <<apiCalls, apiY>>
    /\ UNCHANGED <<overflowChecks, entry, mainVars, domVars, fetchVars, coreVars,
                   coreEval>>

----------------------------------------------------------------------------
(* domain *)

\* domain::add invokes get_x() and awaits the future
DomainInvokeFetch ==
    /\ domPc = "start"
    /\ domPc' = "awaiting"
    /\ fetchSt' = "pending"
    /\ fetchCalls' = fetchCalls + 1
    /\ UNCHANGED <<get_x, domY, domResult, fetchDone, fetchResult, polls>>
    /\ UNCHANGED <<overflowChecks, entry, mainVars, apiVars, coreVars, coreEval>>

\* the future of a stub get_x() answers Pending; infra::get_x has no await in it
\* and is Ready at its first poll
FetchPending ==
    /\ fetchSt = "pending"
    /\ get_x.kind = "stub"
    /\ polls < MaxPolls
    /\ polls' = polls + 1
    /\ UNCHANGED <<fetchSt, fetchCalls, fetchDone, fetchResult>>
    /\ UNCHANGED <<overflowChecks, entry, mainVars, apiVars, domVars, coreVars,
                   coreEval>>

\* the future of get_x() answers Ready
FetchReady ==
    /\ fetchSt = "pending"
    /\ fetchSt' = "done"
    /\ fetchResult' = FetchOutcome(get_x)
    /\ fetchDone' = fetchDone + 1
    /\ UNCHANGED <<fetchCalls, polls>>
    /\ UNCHANGED <<overflowChecks, entry, mainVars, apiVars, domVars, coreVars,
                   coreEval>>

\* variant: the future of get_x() is not awaited
FetchAwaited_NoWait == fetchSt \in {"pending", "done"}

\* may domain::add run on past the await
FetchAwaited == fetchSt = "done"

\* variant: a failed fetch is retried once
DomainResume_Retry ==
    /\ domPc = "awaiting"
    /\ FetchAwaited
    /\ LET t == Try(fetchResult)
       IN  IF t.kind = "Err"
           THEN /\ IF fetchCalls < 2
                   THEN domPc' = "start" /\ UNCHANGED domResult
                   ELSE domPc' = "returned" /\ domResult' = t
                /\ UNCHANGED coreVars
           ELSE LET result == CoreAdd(t.v, domY)
                IN  /\ coreCalls' = coreCalls + 1
                    /\ coreLog' = [x |-> t.v, y |-> domY, out |-> result]
                    /\ IF result.kind = "Panic"
                       THEN domPc' = "panicked" /\ UNCHANGED domResult
                       ELSE domPc' = "returned" /\ domResult' = Ok(result.v)
    /\ UNCHANGED <<get_x, domY>>
    /\ UNCHANGED <<overflowChecks, entry, mainVars, apiVars, fetchVars, coreEval>>

\* domain::add, after the await: `?`, then core::add(x, y), then Ok(result)
DomainResume ==
    /\ domPc = "awaiting"
    /\ FetchAwaited
    /\ LET t == Try(fetchResult)
       IN  IF t.kind = "Err"
           THEN /\ domPc' = "returned"
                /\ domResult' = t
                /\ UNCHANGED coreVars
           ELSE LET x == IF t.kind = "Ok" THEN t.v ELSE 0  \* the await yields Ok or Err
                    result == CoreAdd(x, domY)
                IN  /\ coreCalls' = coreCalls + 1
                    /\ coreLog' = [x |-> x, y |-> domY, out |-> result]
                    /\ IF result.kind = "Panic"
                       THEN domPc' = "panicked" /\ UNCHANGED domResult
                       ELSE domPc' = "returned" /\ domResult' = Ok(result.v)
    /\ UNCHANGED <<get_x, domY>>
    /\ UNCHANGED <<overflowChecks, entry, mainVars, apiVars, fetchVars, coreEval>>

----------------------------------------------------------------------------
(* main *)

\* the operand main passes to api::add
MainOperand == 3

MainText == "When we add 3 to the DB value (7), we get "

\* {:?} of Result<i32, anyhow::Error>
DebugFmt(r) ==
    IF r.kind = "Ok" THEN <<"Ok(", r.v, ")">>
    ELSE <<"Err(", r.e.msg, r.e.chain, ")">>

\* main starts: api::add(3)
MainStart ==
    /\ entry = "none"
    /\ entry' = "main"
    /\ mainPc = "idle"
    /\ mainPc' = "awaiting"
    /\ ApiCalled(MainOperand)
    /\ UNCHANGED <<stdout, exitCode>>
    /\ UNCHANGED <<overflowChecks, domVars, fetchVars, coreVars, coreEval>>

\* main resumes when api::add has ended and prints the result; a panic ends
\* the process with status 101
MainPrint ==
    /\ mainPc = "awaiting"
    /\ apiPc \in {"returned", "panicked"}
    /\ IF apiPc = "panicked"
       THEN mainPc' = "panicked" /\ exitCode' = 101 /\ UNCHANGED stdout
       ELSE /\ mainPc' = "printed"
            /\ stdout' = Append(stdout, <<MainText, DebugFmt(apiResult)>>)
            /\ UNCHANGED exitCode
    /\ UNCHANGED <<overflowChecks, entry, apiVars, domVars, fetchVars, coreVars,
                   coreEval>>

\* main returns
MainExit ==
    /\ mainPc = "printed"
    /\ mainPc' = "exited"
    /\ exitCode' = 0
    /\ UNCHANGED stdout
    /\ UNCHANGED <<overflowChecks, entry, apiVars, domVars, fetchVars, coreVars,
                   coreEval>>

----------------------------------------------------------------------------
(* Callers of the layers below main *)

\* api::add(y) called on its own
CallApi ==
    /\ entry = "none"
    /\ entry' = "api"
    /\ \E y \in Samples : ApiCalled(y)
    /\ UNCHANGED <<overflowChecks, mainVars, domVars, fetchVars, coreVars, coreEval>>

\* domain::add(f, y) called on its own, with the real fetch or a stub
CallDomain ==
    /\ entry = "none"
    /\ entry' = "domain"
    /\ \E f \in Stubs \cup {InfraFn}, y \in Samples : DomainCalled(f, y)
    /\ UNCHANGED <<overflowChecks, mainVars, apiVars, fetchVars, coreVars, coreEval>>

\* core::add evaluated on its own
EvalCore ==
    /\ entry = "none"
    /\ entry' = "core"
    /\ \E x \in Samples, y \in Samples, z \in Samples :
         coreEval' = [kind |-> "Eval", x |-> x, y |-> y, z |-> z,
                      xy |-> CoreAdd(x, y),
                      yx |-> CoreAdd(y, x),
                      x0 |-> CoreAdd(x, 0),
                      zx |-> CoreAdd(0, x),
                      l  |-> CoreAddR(CoreAdd(x, y), Val(z)),
                      r  |-> CoreAddR(Val(x), CoreAdd(y, z))]
    /\ UNCHANGED <<overflowChecks, mainVars, apiVars, domVars, fetchVars, coreVars>>

----------------------------------------------------------------------------

Next ==
    \/ MainStart
    \/ MainPrint
    \/ MainExit
    \/ CallApi
    \/ ApiEnter
    \/ ApiResume
    \/ CallDomain
    \/ DomainInvokeFetch
    \/ FetchPending
    \/ FetchReady
    \/ DomainResume
    \/ EvalCore

Spec == Init /\ [][Next]_vars

\* the executor keeps polling a task that can make progress
FairSpec == Spec /\ WF_vars(Next)

TypeOK ==
    /\ overflowChecks \in BOOLEAN
    /\ entry \in {"none", "main", "api", "domain", "core"}
    /\ mainPc \in {"idle", "awaiting", "printed", "exited", "panicked"}
    /\ apiPc \in {"idle", "start", "awaiting", "returned", "panicked"}
    /\ domPc \in {"idle", "start", "awaiting", "returned", "panicked"}
    /\ fetchSt \in {"idle", "pending", "done"}
    /\ apiY \in Samples \cup {0}
    /\ domY \in Samples \cup {0}
    /\ domResult.kind \in {"None", "Ok", "Err"}
    /\ apiResult.kind \in {"None", "Ok", "Err"}
    /\ domResult.kind = "Ok" => domResult.v \in Int

----------------------------------------------------------------------------
(* Properties *)

DomainEnded == domPc \in {"returned", "panicked"}

ApiEnded == apiPc \in {"returned", "panicked"}

\* C1: whenever domain::add has ended for a fetch operation that succeeds with v
\* and an operand y, it has returned Ok of the exact sum v + y.
C1_DomainAddsFetched ==
    (DomainEnded /\ FetchOutcome(get_x).kind = "Ok") =>
        /\ domPc = "returned"
        /\ domResult.kind = "Ok"
        /\ Limbs(domResult.v) = MathSum(FetchOutcome(get_x).v, domY)

\* C2: for a fetch operation that fails with e, core::add is never invoked in the
\* call, and when domain::add has ended it has returned Err(e) with that same e.
C2_FailurePropagates ==
    (domPc # "idle" /\ FetchOutcome(get_x).kind = "Err") =>
        /\ coreCalls = 0
        /\ coreLog = None
        /\ domPc # "panicked"
        /\ domPc = "returned" => domResult = Err(FetchOutcome(get_x).e)

C2_Witness ==
    /\ entry = "domain"
    /\ domPc = "returned"
    /\ get_x.kind = "stub"
    /\ get_x.result = Err(Error("db down"))
    /\ domResult = Err(Error("db down"))
    /\ polls > 0

\* C3: whenever api::add(y) has ended, it has returned Ok of the exact sum 7 + y.
C3_ApiAddsSeven ==
    ApiEnded =>
        /\ apiPc = "returned"
        /\ apiResult.kind = "Ok"
        /\ Limbs(apiResult.v) = MathSum(7, apiY)

\* C4: every evaluation core::add(x, y) returns a value, and the value is the
\* exact sum x + y.
C4_CoreAddExact ==
    /\ coreEval.kind = "Eval" =>
         /\ coreEval.xy.kind = "Val"
         /\ Limbs(coreEval.xy.v) = MathSum(coreEval.x, coreEval.y)
    /\ coreCalls > 0 =>
         /\ coreLog.out.kind = "Val"
         /\ Limbs(coreLog.out.v) = MathSum(coreLog.x, coreLog.y)

\* C5: no evaluation of core::add panics, and domain::add or api::add end
\* without a success value only when the fetch failed.
C5_CoreTotal ==
    /\ coreEval.kind = "Eval" => coreEval.xy.kind # "Panic"
    /\ coreCalls > 0 => coreLog.out.kind # "Panic"
    /\ (DomainEnded /\ domResult.kind # "Ok") => fetchResult.kind = "Err"
    /\ (ApiEnded /\ apiResult.kind # "Ok") => fetchResult.kind = "Err"

\* C6: core::add is commutative, associative (the two groupings agree also on
\* whether they produce a result) and has 0 as neutral element on both sides.
C6_CoreAlgebra ==
    coreEval.kind = "Eval" =>
        /\ coreEval.xy = coreEval.yx
        /\ coreEval.l = coreEval.r
        /\ coreEval.x0 = Val(coreEval.x)
        /\ coreEval.zx = Val(coreEval.x)

\* C7: a call of domain::add invokes get_x exactly once, never before it starts
\* and never again, and when domain::add has ended the future of get_x() has
\* completed exactly once, with a value or an error.
C7_FetchOnce ==
    /\ fetchCalls <= 1
    /\ fetchDone <= fetchCalls
    /\ domPc \in {"idle", "start"} => fetchCalls = 0
    /\ domPc \in {"awaiting", "returned", "panicked"} => fetchCalls = 1
    /\ DomainEnded => (fetchDone = 1 /\ fetchResult.kind \in {"Ok", "Err"})

C7_Witness ==
    /\ domPc = "returned"
    /\ fetchCalls = 1
    /\ fetchDone = 1
    /\ fetchResult.kind = "Err"
    /\ polls = MaxPolls

\* C8: core::add has run only when the fetch has completed; at most one fetch is
\* in flight, and while it is, domain::add is suspended at its await and
\* core::add has not run.
C8_FetchBeforeCore ==
    /\ coreCalls > 0 => (fetchSt = "done" /\ fetchDone = 1)
    /\ fetchCalls - fetchDone \in {0, 1}
    /\ fetchSt = "pending" <=> fetchCalls - fetchDone = 1
    /\ fetchSt = "pending" => (domPc = "awaiting" /\ coreCalls = 0)
    /\ polls > 0 => fetchCalls = 1

C8_Witness ==
    /\ coreCalls = 1
    /\ coreLog.out.kind = "Val"
    /\ polls > 0
    /\ fetchSt = "done"
    /\ domPc = "returned"

\* C9: a call of api::add or of domain::add that has ended has returned one
\* outcome, a success value or a failure.
C9_CallsReturn ==
    /\ ApiEnded => (apiPc = "returned" /\ apiResult.kind \in {"Ok", "Err"})
    /\ DomainEnded => (domPc = "returned" /\ domResult.kind \in {"Ok", "Err"})
    /\ apiPc \notin {"returned"} => apiResult = None
    /\ domPc \notin {"returned"} => domResult = None

\* every started call ends, by returning or by unwinding, and main exits
CallsEnd ==
    /\ (apiPc = "start") ~> ApiEnded
    /\ (domPc = "start") ~> DomainEnded
    /\ (mainPc = "awaiting") ~> (mainPc = "exited")

\* C10: api::add returns a failure of domain::add unchanged and never anything
\* but what domain::add returned; main calls api::add once, with operand 3,
\* prints the result and exits with status 0.
C10_NoRecovery ==
    /\ \A e \in Errors : ApiAddReturn(Err(e)) = Err(e)
    /\ apiPc = "returned" => apiResult = domResult
    /\ entry = "main" => (apiCalls = 1 /\ apiY = 3)
    /\ mainPc \in {"printed", "exited"} =>
         stdout = << <<MainText, DebugFmt(apiResult)>> >>
    /\ mainPc \in {"idle", "awaiting"} => stdout = << >>
    /\ mainPc # "panicked"
    /\ exitCode = IF mainPc = "exited" THEN 0 ELSE -1

C10_Witness ==
    /\ mainPc = "exited"
    /\ exitCode = 0
    /\ apiCalls = 1
    /\ stdout = << <<MainText, <<"Ok(", 10, ")">> >> >>

====
